---------------------------- MODULE Spec2Model ----------------------------
(***************************************************************************)
(* A model of the PySlipQt widget (pyslipqt.py): the "key" tile anchor,   *)
(* its normalisation after a drag, the level change, the resize and the   *)
(* computation of the visible columns and rows in paintEvent.             *)
(*                                                                         *)
(* The tile source (tile_src) is the widget's collaborator.  It is a      *)
(* record chosen when the widget is constructed:                          *)
(*   wrap_x, wrap_y            the wrap flags                              *)
(*   levels                    the set of levels it supports               *)
(*   tile_size_x, tile_size_y  its current tile size attributes            *)
(*   info                      level -> <<num_tiles_x, num_tiles_y,        *)
(*                                        tile_size_x, tile_size_y>>       *)
(* UseLevel(level) accepts the levels in `levels` and makes the tile size *)
(* of that level current; GetInfo(level) reports the tile counts.         *)
(***************************************************************************)
EXTENDS Integers, Sequences, FiniteSets, TLC

VARIABLES
    tile_src,            \* self.tile_src (the collaborator's state)
    level,               \* self.level
    view_width,          \* self.view_width
    view_height,         \* self.view_height
    max_level,           \* self.max_level
    min_level,           \* self.min_level
    tile_size_x,         \* self.tile_size_x (read once, at construction)
    tile_size_y,         \* self.tile_size_y
    num_tiles_x,         \* self.num_tiles_x (Unset until a zoom is accepted)
    num_tiles_y,         \* self.num_tiles_y
    key_tile_left,       \* self.key_tile_left
    key_tile_top,        \* self.key_tile_top
    key_tile_xoffset,    \* self.key_tile_xoffset
    key_tile_yoffset,    \* self.key_tile_yoffset
    left_mbutton_down,   \* self.left_mbutton_down
    mid_mbutton_down,    \* self.mid_mbutton_down
    right_mbutton_down,  \* self.right_mbutton_down
    start_drag_x,        \* self.start_drag_x: <<>> is None, <<x>> is x
    start_drag_y,        \* self.start_drag_y
    op                   \* the last handler that ran, and how it ended

anchor == <<key_tile_left, key_tile_top, key_tile_xoffset, key_tile_yoffset>>
grid   == <<level, num_tiles_x, num_tiles_y>>
view   == <<view_width, view_height>>
fixed  == <<max_level, min_level, tile_size_x, tile_size_y>>
mouse  == <<left_mbutton_down, mid_mbutton_down, right_mbutton_down,
            start_drag_x, start_drag_y>>
vars   == <<tile_src, anchor, grid, view, fixed, mouse, op>>

---------------------------------------------------------------------------
(* Bounds of the model and the inputs the environment draws from.          *)

\* zoom_level is called with the levels -1 .. MaxReqLevel
MaxReqLevel == 2

\* the column and row lists the claims quantify over have the entries
\* 0 .. MaxK
MaxK == 16

\* num_tiles_x / num_tiles_y before zoom_level has assigned them: __init__
\* does not create the attributes, reading them raises AttributeError
Unset == -1

ReqLevels   == -1 .. MaxReqLevel
StartLevels == {0, MaxReqLevel}

\* the (delta_x, delta_y) pairs normalize_view is called with directly
PanDeltas == { <<0, 0>>, <<300, 0>>, <<-50, 0>>, <<50, -50>>, <<-300, -150>> }

\* one-axis deltas used where a claim quantifies over deltas
Deltas == {-300, -50, 0, 150, 300}

\* pointer positions of mouse events, (event.x(), event.y())
MousePos == { <<0, 50>>, <<50, 0>>, <<350, 100>> }

\* widget sizes reported at a resize, (self.width(), self.height())
ViewSizes == { <<0, 0>>, <<600, 100>>, <<100, 0>> }

\* event.button() of a press or a release
Buttons == {"LeftButton", "RightButton"}

Info(nx, ny, sx, sy) == <<nx, ny, sx, sy>>

\* Tile sources with tile sizes >= 1 and tile counts >= 1.
\*   1: the 256-pixel grid, 4 columns, X wraps, one level
\*   2: X and Y wrap, level 1 has more tiles than level 0
\*   3: X does not wrap, Y wraps
\*   4: X wraps, the tile width differs between the levels
TileSources ==
    { [wrap_x |-> TRUE, wrap_y |-> FALSE, levels |-> {1},
       tile_size_x |-> 256, tile_size_y |-> 256,
       info |-> [l \in ReqLevels |-> Info(4, 2, 256, 256)]],
      [wrap_x |-> TRUE, wrap_y |-> TRUE, levels |-> {0, 1},
       tile_size_x |-> 150, tile_size_y |-> 100,
       info |-> [l \in ReqLevels |-> IF l = 1 THEN Info(3, 2, 150, 100)
                                              ELSE Info(1, 1, 150, 100)]],
      [wrap_x |-> FALSE, wrap_y |-> TRUE, levels |-> {0, 1},
       tile_size_x |-> 100, tile_size_y |-> 150,
       info |-> [l \in ReqLevels |-> IF l = 1 THEN Info(3, 3, 100, 150)
                                              ELSE Info(2, 1, 100, 150)]],
      [wrap_x |-> TRUE, wrap_y |-> FALSE, levels |-> {0, 1},
       tile_size_x |-> 150, tile_size_y |-> 100,
       info |-> [l \in ReqLevels |-> IF l = 1 THEN Info(3, 2, 50, 100)
                                              ELSE Info(2, 2, 150, 100)]] }

\* Tile sources with a zero tile size or a zero tile count.
MalformedSources ==
    { [wrap_x |-> TRUE, wrap_y |-> TRUE, levels |-> {0, 1},
       tile_size_x |-> 0, tile_size_y |-> 100,
       info |-> [l \in ReqLevels |-> Info(2, 2, 0, 100)]],
      [wrap_x |-> TRUE, wrap_y |-> FALSE, levels |-> {0, 1},
       tile_size_x |-> 100, tile_size_y |-> 100,
       info |-> [l \in ReqLevels |-> IF l = 1 THEN Info(0, 2, 100, 100)
                                              ELSE Info(2, 0, 100, 100)]],
      [wrap_x |-> FALSE, wrap_y |-> TRUE, levels |-> {0, 1},
       tile_size_x |-> 100, tile_size_y |-> 0,
       info |-> [l \in ReqLevels |-> Info(2, 2, 100, 0)]] }

---------------------------------------------------------------------------
(* The tile source's interface.                                            *)

\* tile_src.UseLevel(level): whether the level is usable
UseLevel(ts, lvl) == lvl \in ts.levels

\* the tile source after UseLevel(level): an accepted level's tile size
\* becomes its tile_size_x / tile_size_y
AfterUseLevel(ts, lvl) ==
    IF UseLevel(ts, lvl)
    THEN [ts EXCEPT !.tile_size_x = ts.info[lvl][3],
                    !.tile_size_y = ts.info[lvl][4]]
    ELSE ts

\* tile_src.GetInfo(level): (num_tiles_x, num_tiles_y, _, _)
GetInfo(ts, lvl) == ts.info[lvl]

\* max(tile_src.levels), min(tile_src.levels)
MaxOf(S) == CHOOSE m \in S : \A x \in S : x <= m
MinOf(S) == CHOOSE m \in S : \A x \in S : m <= x

---------------------------------------------------------------------------
(* How a handler ended.                                                    *)

\* outcome: "ok", or the exception a statement raised, or "diverges" for a
\* loop that never ends.  result: what zoom_level returned.  updates: the
\* number of self.update() calls the handler made.  delta: the deltas the
\* handler passed to normalize_view.
Op(kind, outcome, result, updates) ==
    [kind |-> kind, outcome |-> outcome, result |-> result, updates |-> updates,
     delta |-> <<>>]

\* a handler that called normalize_view(delta_x, delta_y): delta is the
\* pair <<delta_x, delta_y>> it passed (<<>> for a handler that made no call)
PanOp(kind, outcome, updates, dx, dy) ==
    [kind |-> kind, outcome |-> outcome, result |-> FALSE, updates |-> updates,
     delta |-> <<dx, dy>>]

\* A handler that never returns blocks the (single) event thread for good,
\* and an exception that leaves a handler ends the program (PyQt5 aborts on
\* an unhandled exception in an event handler): no handler runs after either.
Running == op.outcome = "ok"


---------------------------------------------------------------------------
(* normalize_view: the two normalisation loops of one axis.                *)

Step(left, off, outcome) == [left |-> left, off |-> off, outcome |-> outcome]

\* key_tile_left %= num_tiles_x, as far as the statement gets
WrapOutcome(size, num) ==
    IF num = Unset THEN "AttributeError"
    ELSE IF num = 0 THEN "ZeroDivisionError"
    ELSE IF size = 0 THEN "diverges"
    ELSE "ok"

\* LoopUp without "left %= num_tiles": the key tile coordinate is not wrapped
RECURSIVE LoopUp_NoWrap(_, _, _, _)
LoopUp_NoWrap(left, off, size, num) ==
    IF ~(off > 0) THEN Step(left, off, "ok")
    ELSE LoopUp_NoWrap(left + 1, off - size, size, num)

\* while offset > 0: offset -= tile_size; left += 1; left %= num_tiles
RECURSIVE LoopUp(_, _, _, _)
LoopUp(left, off, size, num) ==
    IF ~(off > 0) THEN Step(left, off, "ok")
    ELSE LET off1  == off - size
             left1 == left + 1
             how   == WrapOutcome(size, num)
         IN  CASE how = "ok"       -> LoopUp(left1 % num, off1, size, num)
               [] how = "diverges" -> Step(left1 % num, off1, how)
               [] OTHER            -> Step(left1, off1, how)

\* LoopDown with the test "offset < -tile_size": an offset of exactly
\* -tile_size is left as it is
RECURSIVE LoopDown_Strict(_, _, _, _)
LoopDown_Strict(left, off, size, num) ==
    IF ~(off < -size) THEN Step(left, off, "ok")
    ELSE LET off1  == off + size
             left1 == left - 1
             how   == WrapOutcome(size, num)
         IN  CASE how = "ok"       -> LoopDown_Strict((left1 + num) % num, off1, size, num)
               [] how = "diverges" -> Step((left1 + num) % num, off1, how)
               [] OTHER            -> Step(left1, off1, how)

\* while offset <= -tile_size: offset += tile_size; left -= 1;
\*     left = (left + num_tiles) % num_tiles
RECURSIVE LoopDown(_, _, _, _)
LoopDown(left, off, size, num) ==
    IF ~(off <= -size) THEN Step(left, off, "ok")
    ELSE LET off1  == off + size
             left1 == left - 1
             how   == WrapOutcome(size, num)
         IN  CASE how = "ok"       -> LoopDown((left1 + num) % num, off1, size, num)
               [] how = "diverges" -> Step((left1 + num) % num, off1, how)
               [] OTHER            -> Step(left1, off1, how)

\* NormalizeAxis without the "if delta:" test and with the offset set to
\* -delta instead of decreased by it
NormalizeAxis_Recentre(left, off, delta, wrap, size, num) ==
    IF ~wrap THEN Step(left, off, "ok")
    ELSE LET up == LoopUp(left, -delta, size, num)
         IN  IF up.outcome # "ok" THEN up
             ELSE LoopDown(up.left, up.off, size, num)

\* NormalizeAxis without the test of the wrap flag
NormalizeAxis_IgnoreWrap(left, off, delta, wrap, size, num) ==
    IF delta = 0 THEN Step(left, off, "ok")
    ELSE LET up == LoopUp(left, off - delta, size, num)
         IN  IF up.outcome # "ok" THEN up
             ELSE LoopDown(up.left, up.off, size, num)

\* the body of "if delta_x:" (and of "if delta_y:") for one axis
NormalizeAxis(left, off, delta, wrap, size, num) ==
    IF delta = 0 THEN Step(left, off, "ok")
    ELSE IF ~wrap THEN Step(left, off, "ok")
    ELSE LET up == LoopUp(left, off - delta, size, num)
         IN  IF up.outcome # "ok" THEN up
             ELSE LoopDown(up.left, up.off, size, num)

\* normalize_view(delta_x, delta_y) from the anchor a, a record of the
\* key tile fields: the X axis, then (unless the X axis raised or hangs)
\* the Y axis
NormalizeViewOf(a, dx, dy) ==
    LET x == NormalizeAxis(a.left, a.xoffset, dx,
                           tile_src.wrap_x, tile_size_x, num_tiles_x)
        y == IF x.outcome = "ok"
             THEN NormalizeAxis(a.top, a.yoffset, dy,
                                tile_src.wrap_y, tile_size_y, num_tiles_y)
             ELSE Step(a.top, a.yoffset, x.outcome)
    IN  [left |-> x.left, xoffset |-> x.off,
         top  |-> y.left, yoffset |-> y.off, outcome |-> y.outcome]

\* the key tile fields of the current state
KeyTile ==
    [left |-> key_tile_left, xoffset |-> key_tile_xoffset,
     top  |-> key_tile_top,  yoffset |-> key_tile_yoffset]

NormalizeView(dx, dy) == NormalizeViewOf(KeyTile, dx, dy)

---------------------------------------------------------------------------
(* paintEvent: the column list, the row list and the draw positions.       *)

Listed(list, outcome) == [list |-> list, outcome |-> outcome]

\* TileLoop as a loop that tests its condition after the body
RECURSIVE TileLoop_DoWhile(_, _, _, _, _, _, _)
TileLoop_DoWhile(coord, pix, limit, wrap, num, step, acc) ==
    LET acc1 == Append(acc, coord)
    IN  IF ~wrap /\ num = Unset THEN Listed(acc1, "AttributeError")
        ELSE IF ~wrap /\ coord >= num - 1 THEN Listed(acc1, "ok")
        ELSE IF num = Unset THEN Listed(acc1, "AttributeError")
        ELSE IF num = 0 THEN Listed(acc1, "ZeroDivisionError")
        ELSE IF ~(pix + step < limit) THEN Listed(acc1, "ok")
        ELSE IF wrap /\ step = 0 THEN Listed(acc1, "diverges")
        ELSE TileLoop_DoWhile((coord + 1) % num, pix + step, limit, wrap,
                              num, step, acc1)

\* TileLoop with "pix_start <= view_size" as its condition
RECURSIVE TileLoop_Inclusive(_, _, _, _, _, _, _)
TileLoop_Inclusive(coord, pix, limit, wrap, num, step, acc) ==
    IF ~(pix <= limit) THEN Listed(acc, "ok")
    ELSE LET acc1 == Append(acc, coord)
         IN  IF ~wrap /\ num = Unset THEN Listed(acc1, "AttributeError")
             ELSE IF ~wrap /\ coord >= num - 1 THEN Listed(acc1, "ok")
             ELSE IF num = Unset THEN Listed(acc1, "AttributeError")
             ELSE IF num = 0 THEN Listed(acc1, "ZeroDivisionError")
             ELSE IF wrap /\ step = 0 THEN Listed(acc1, "diverges")
             ELSE TileLoop_Inclusive((coord + 1) % num, pix + step, limit,
                                     wrap, num, step, acc1)

\* while pix_start < view_size: append coord; break at the last tile of a
\* non-wrapping axis; coord = (coord + 1) % num_tiles; pix_start += step
RECURSIVE TileLoop(_, _, _, _, _, _, _)
TileLoop(coord, pix, limit, wrap, num, step, acc) ==
    IF ~(pix < limit) THEN Listed(acc, "ok")
    ELSE LET acc1 == Append(acc, coord)
         IN  IF ~wrap /\ num = Unset THEN Listed(acc1, "AttributeError")
             ELSE IF ~wrap /\ coord >= num - 1 THEN Listed(acc1, "ok")
             ELSE IF num = Unset THEN Listed(acc1, "AttributeError")
             ELSE IF num = 0 THEN Listed(acc1, "ZeroDivisionError")
             ELSE IF wrap /\ step = 0 THEN Listed(acc1, "diverges")
             ELSE TileLoop((coord + 1) % num, pix + step, limit, wrap, num,
                           step, acc1)

\* col_list: the cursor advances by the tile source's tile_size_x
ColList ==
    TileLoop(key_tile_left, key_tile_xoffset, view_width, tile_src.wrap_x,
             num_tiles_x, tile_src.tile_size_x, <<>>)

\* row_list: the cursor advances by the tile source's tile_size_y
RowList ==
    TileLoop(key_tile_top, key_tile_yoffset, view_height, tile_src.wrap_y,
             num_tiles_y, tile_src.tile_size_y, <<>>)

\* the drawPixmap calls, <<x, y, x_pix, y_pix>>, column by column: the
\* positions advance by the widget's own tile_size_x / tile_size_y
DrawList(cols, rows) ==
    [i \in 1 .. Len(cols) * Len(rows) |->
        LET c == (i - 1) \div Len(rows)
            r == (i - 1) % Len(rows)
        IN  <<cols[c + 1], rows[r + 1],
              key_tile_xoffset + c * tile_size_x,
              key_tile_yoffset + r * tile_size_y>>]

\* how paintEvent ends
PaintOutcome ==
    IF ColList.outcome # "ok" THEN ColList.outcome ELSE RowList.outcome

---------------------------------------------------------------------------
(* Construction.                                                           *)

\* PySlipQt.__init__(parent, tile_src, start_level)
Construct(ts, start_level) ==
    /\ tile_src = ts
    /\ level = start_level
    /\ view_width = 0
    /\ view_height = 0
    /\ max_level = MaxOf(ts.levels)
    /\ min_level = MinOf(ts.levels)
    /\ tile_size_x = ts.tile_size_x
    /\ tile_size_y = ts.tile_size_y
    /\ num_tiles_x = Unset
    /\ num_tiles_y = Unset
    /\ key_tile_left = 0
    /\ key_tile_top = 0
    /\ key_tile_xoffset = 0
    /\ key_tile_yoffset = 0
    /\ left_mbutton_down = FALSE
    /\ mid_mbutton_down = FALSE
    /\ right_mbutton_down = FALSE
    /\ start_drag_x = <<>>
    /\ start_drag_y = <<>>
    /\ op = Op("__init__", "ok", FALSE, 0)

Init == \E ts \in TileSources : \E s \in StartLevels : Construct(ts, s)

InitMalformed ==
    \E ts \in MalformedSources : \E s \in StartLevels : Construct(ts, s)

---------------------------------------------------------------------------
(* The handlers.                                                           *)

mousePressEvent(b) ==
    /\ Running
    /\ left_mbutton_down' = IF b = "LeftButton" THEN TRUE ELSE left_mbutton_down
    /\ mid_mbutton_down' = IF b = "MidButton" THEN TRUE ELSE mid_mbutton_down
    /\ right_mbutton_down' =
           IF b = "RightButton" THEN TRUE ELSE right_mbutton_down
    /\ op' = Op("mousePressEvent", "ok", FALSE, 0)
    /\ UNCHANGED <<tile_src, anchor, grid, view, fixed, start_drag_x,
                   start_drag_y>>

mouseReleaseEvent(b) ==
    /\ Running
    /\ left_mbutton_down' = IF b = "LeftButton" THEN FALSE ELSE left_mbutton_down
    /\ start_drag_x' = IF b = "LeftButton" THEN <<>> ELSE start_drag_x
    /\ start_drag_y' = IF b = "LeftButton" THEN <<>> ELSE start_drag_y
    /\ mid_mbutton_down' = IF b = "MidButton" THEN FALSE ELSE mid_mbutton_down
    /\ right_mbutton_down' =
           IF b = "RightButton" THEN FALSE ELSE right_mbutton_down
    /\ op' = Op("mouseReleaseEvent", "ok", FALSE, 0)
    /\ UNCHANGED <<tile_src, anchor, grid, view, fixed>>

\* "if self.start_drag_x:" is false for None and for 0
Truthy(drag) == drag # <<>> /\ drag[1] # 0

mouseMoveEvent(x, y) ==
    /\ Running
    /\ IF left_mbutton_down
       THEN IF Truthy(start_drag_x)
            THEN LET n == NormalizeView(start_drag_x[1] - x, start_drag_y[1] - y)
                 IN  /\ key_tile_left' = n.left
                     /\ key_tile_xoffset' = n.xoffset
                     /\ key_tile_top' = n.top
                     /\ key_tile_yoffset' = n.yoffset
                     /\ start_drag_x' = IF n.outcome = "ok" THEN <<x>>
                                        ELSE start_drag_x
                     /\ start_drag_y' = IF n.outcome = "ok" THEN <<y>>
                                        ELSE start_drag_y
                     /\ op' = PanOp("mouseMoveEvent", n.outcome,
                                    IF n.outcome = "ok" THEN 1 ELSE 0,
                                    start_drag_x[1] - x, start_drag_y[1] - y)
            ELSE /\ start_drag_x' = <<x>>
                 /\ start_drag_y' = <<y>>
                 /\ op' = Op("mouseMoveEvent", "ok", FALSE, 0)
                 /\ UNCHANGED anchor
       ELSE /\ op' = Op("mouseMoveEvent", "ok", FALSE, 0)
            /\ UNCHANGED <<anchor, start_drag_x, start_drag_y>>
    /\ UNCHANGED <<tile_src, grid, view, fixed, left_mbutton_down,
                   mid_mbutton_down, right_mbutton_down>>

\* normalize_view(delta_x, delta_y), called on its own (a pan)
normalize_view(dx, dy) ==
    /\ Running
    /\ LET n == NormalizeView(dx, dy)
       IN  /\ key_tile_left' = n.left
           /\ key_tile_xoffset' = n.xoffset
           /\ key_tile_top' = n.top
           /\ key_tile_yoffset' = n.yoffset
           /\ op' = PanOp("normalize_view", n.outcome, 0, dx, dy)
    /\ UNCHANGED <<tile_src, grid, view, fixed, mouse>>

\* ZoomTo with the two tile counts of GetInfo unpacked in the wrong order
ZoomTo_SwapCounts(lvl, kind) ==
    LET result == UseLevel(tile_src, lvl)
    IN  /\ tile_src' = AfterUseLevel(tile_src, lvl)
        /\ IF result
           THEN /\ level' = lvl
                /\ num_tiles_x' = GetInfo(tile_src, lvl)[2]
                /\ num_tiles_y' = GetInfo(tile_src, lvl)[1]
                /\ op' = Op(kind, "ok", TRUE, 1)
           ELSE /\ op' = Op(kind, "ok", FALSE, 0)
                /\ UNCHANGED grid
        /\ UNCHANGED <<anchor, view, fixed, mouse>>

\* ZoomTo with "self.level = level" done before the result is tested
ZoomTo_LevelFirst(lvl, kind) ==
    LET result == UseLevel(tile_src, lvl)
    IN  /\ tile_src' = AfterUseLevel(tile_src, lvl)
        /\ level' = lvl
        /\ IF result
           THEN /\ num_tiles_x' = GetInfo(tile_src, lvl)[1]
                /\ num_tiles_y' = GetInfo(tile_src, lvl)[2]
                /\ op' = Op(kind, "ok", TRUE, 1)
           ELSE /\ op' = Op(kind, "ok", FALSE, 0)
                /\ UNCHANGED <<num_tiles_x, num_tiles_y>>
        /\ UNCHANGED <<anchor, view, fixed, mouse>>

\* zoom_level(level); `kind` names the handler it was called from
ZoomTo(lvl, kind) ==
    LET result == UseLevel(tile_src, lvl)
    IN  /\ tile_src' = AfterUseLevel(tile_src, lvl)
        /\ IF result
           THEN /\ level' = lvl
                /\ num_tiles_x' = GetInfo(tile_src, lvl)[1]
                /\ num_tiles_y' = GetInfo(tile_src, lvl)[2]
                /\ op' = Op(kind, "ok", TRUE, 1)
           ELSE /\ op' = Op(kind, "ok", FALSE, 0)
                /\ UNCHANGED grid
        /\ UNCHANGED <<anchor, view, fixed, mouse>>

zoom_level(lvl) ==
    /\ Running
    /\ ZoomTo(lvl, "zoom_level")

\* wheelEvent stepping two levels at a time
wheelEvent_TwoSteps(angle_y) ==
    /\ Running
    /\ ZoomTo(IF angle_y < 0 THEN level + 2 ELSE level - 2, "wheelEvent")

\* wheelEvent: level + 1 when angleDelta().y() < 0, else level - 1
wheelEvent(angle_y) ==
    /\ Running
    /\ ZoomTo(IF angle_y < 0 THEN level + 1 ELSE level - 1, "wheelEvent")

\* resizeEvent with a recalc_wrap() that moves the key tile back to the
\* top left corner of the view
resizeEvent_Recalc(w, h) ==
    /\ Running
    /\ view_width' = w
    /\ view_height' = h
    /\ key_tile_xoffset' = 0
    /\ key_tile_yoffset' = 0
    /\ op' = Op("resizeEvent", "ok", FALSE, 0)
    /\ UNCHANGED <<tile_src, key_tile_left, key_tile_top, grid, fixed, mouse>>

\* resizeEvent: the new widget size; recalc_wrap() does nothing
resizeEvent(w, h) ==
    /\ Running
    /\ view_width' = w
    /\ view_height' = h
    /\ op' = Op("resizeEvent", "ok", FALSE, 0)
    /\ UNCHANGED <<tile_src, anchor, grid, fixed, mouse>>

\* paintEvent: computes col_list and row_list and draws; no field changes
paintEvent ==
    /\ Running
    /\ op' = Op("paintEvent", PaintOutcome, FALSE, 0)
    /\ UNCHANGED <<tile_src, anchor, grid, view, fixed, mouse>>

Next ==
    \/ \E b \in Buttons : mousePressEvent(b)
    \/ \E b \in Buttons : mouseReleaseEvent(b)
    \/ \E p \in MousePos : mouseMoveEvent(p[1], p[2])
    \/ \E d \in PanDeltas : normalize_view(d[1], d[2])
    \/ \E l \in ReqLevels : zoom_level(l)
    \/ \E a \in {-120, 120} : wheelEvent(a)
    \/ \E v \in ViewSizes : resizeEvent(v[1], v[2])
    \/ paintEvent

Spec == Init /\ [][Next]_vars

SpecMalformed == InitMalformed /\ [][Next]_vars

---------------------------------------------------------------------------
(* The properties.                                                         *)

\* a handler that pans: normalize_view itself, or a mouse move
PanKinds == {"normalize_view", "mouseMoveEvent"}

\* the tile counts have been read from the tile source
HasGrid == num_tiles_x # Unset /\ num_tiles_y # Unset

\* one axis of an anchor is normalized for tile size `size` and `num` tiles
NormalizedAxis(coord, off, size, num) ==
    /\ -size < off /\ off <= 0
    /\ 0 <= coord /\ coord < num

\* C1 (as claimed): in every state reached without an error, once the tile
\* counts of the current level have been read, on each wrapping axis the
\* key offset lies in (-tileSize, 0] and the key tile coordinate lies in
\* [0, tileCount) -- also just after a zoom to a level with fewer tiles.
C1_NormalizationInvariant ==
    (op.outcome = "ok" /\ HasGrid) =>
        /\ tile_src.wrap_x =>
               NormalizedAxis(key_tile_left, key_tile_xoffset, tile_size_x,
                              num_tiles_x)
        /\ tile_src.wrap_y =>
               NormalizedAxis(key_tile_top, key_tile_yoffset, tile_size_y,
                              num_tiles_y)

\* the anchor a is normalized on the X axis for the widget's grid
NormalizedX(a) ==
    /\ HasGrid
    /\ NormalizedAxis(a.left, a.xoffset, tile_size_x, num_tiles_x)

Pan(a, dx, dy) == NormalizeViewOf(a, dx, dy)

\* C2: on a wrapping X axis with the grid fixed, from every normalized
\* anchor and for all deltas a and b, pan(a,0) followed by pan(b,0) ends in
\* the same anchor (key tile column and row, both offsets) as pan(a+b,0),
\* and none of the three raises.
C2_PanComposition ==
    (op.outcome = "ok" /\ tile_src.wrap_x /\ NormalizedX(KeyTile)) =>
        \A a \in Deltas : \A b \in Deltas :
            LET first == Pan(KeyTile, a, 0)
            IN  /\ first.outcome = "ok"
                /\ Pan(first, b, 0) = Pan(KeyTile, a + b, 0)

\* C2 witness: a pan has run on a wrapping X axis, the anchor is normalized
\* and off the origin, and some a, b with a + b = 0 each move the key tile.
C2_Witness ==
    /\ op.kind = "normalize_view" /\ op.outcome = "ok"
    /\ tile_src.wrap_x /\ NormalizedX(KeyTile)
    /\ key_tile_left # 0 /\ key_tile_xoffset # 0
    /\ \E a \in Deltas :
           /\ Pan(KeyTile, a, 0).left # key_tile_left
           /\ Pan(Pan(KeyTile, a, 0), -a, 0).left = key_tile_left
           /\ Pan(Pan(KeyTile, a, 0), -a, 0).xoffset = key_tile_xoffset

\* the state the wraparound examples start from: X wraps, 4 columns of
\* 256 pixels, key tile column 0 at offset 0
ExampleGrid ==
    /\ Running
    /\ tile_src.wrap_x /\ num_tiles_x = 4 /\ tile_size_x = 256
    /\ key_tile_left = 0 /\ key_tile_xoffset = 0

\* C3 (as claimed): from the example grid, pan(300, 0) yields key tile
\* column 1 and key offset -44.
C3_Wraparound ==
    [][(ExampleGrid /\ normalize_view(300, 0)) =>
           (key_tile_left' = 1 /\ key_tile_xoffset' = -44)]_vars

\* C4 (as claimed): from the example grid, pan(-50, 0) yields key tile
\* column 3 and key offset -206.
C4_NegativeWraparound ==
    [][(ExampleGrid /\ normalize_view(-50, 0)) =>
           (key_tile_left' = 3 /\ key_tile_xoffset' = -206)]_vars

\* C5: a zoom_level call (direct or from the wheel) for a level the tile
\* source rejects returns false, raises nothing, calls update() not once
\* and leaves level, the tile counts, the key tile and the key offsets as
\* they were.
C5_ZoomRejection ==
    [][\A l \in ReqLevels :
           (/\ Running
            /\ ~UseLevel(tile_src, l)
            /\ (ZoomTo(l, "zoom_level") \/ ZoomTo(l, "wheelEvent")))
           => /\ op'.result = FALSE
              /\ op'.outcome = "ok"
              /\ op'.updates = 0
              /\ UNCHANGED <<level, num_tiles_x, num_tiles_y, anchor>>]_vars

\* C5 witness: a zoom was rejected in a state with a grid, a level and a
\* key tile away from their initial values.
C5_Witness ==
    /\ op.kind = "zoom_level" /\ op.result = FALSE
    /\ HasGrid /\ level = 1
    /\ key_tile_left # 0 /\ key_tile_xoffset # 0

\* a repaint has just run (the lists it computed are ColList and RowList)
\* from an anchor normalized for the grid the lists are computed with: the
\* tile counts read, the key tile inside them, each key offset in
\* (-tileSize, 0] for the tile source's current tile size
NormalizedForPaint ==
    /\ op.kind = "paintEvent"
    /\ HasGrid
    /\ NormalizedAxis(key_tile_left, key_tile_xoffset, tile_src.tile_size_x,
                      num_tiles_x)
    /\ NormalizedAxis(key_tile_top, key_tile_yoffset, tile_src.tile_size_y,
                      num_tiles_y)

\* C6 (as claimed): for every normalized anchor, with viewport width 0 the
\* column list is exactly the key tile column, and with viewport height 0
\* the row list is exactly the key tile row.
C6_MinimumOne ==
    NormalizedForPaint =>
        /\ view_width = 0 => ColList.list = <<key_tile_left>>
        /\ view_height = 0 => RowList.list = <<key_tile_top>>

\* C6 (amended): for every normalized anchor, with viewport width 0 the
\* column list is exactly the key tile column when the key offset is
\* negative and is empty when the key offset is 0; the same for the row
\* list with viewport height 0.
C6_MinimumOneAmended ==
    NormalizedForPaint =>
        /\ view_width = 0 =>
               /\ ColList.outcome = "ok"
               /\ ColList.list = IF key_tile_xoffset < 0
                                 THEN <<key_tile_left>> ELSE <<>>
        /\ view_height = 0 =>
               /\ RowList.outcome = "ok"
               /\ RowList.list = IF key_tile_yoffset < 0
                                 THEN <<key_tile_top>> ELSE <<>>

\* C6 witness: a repaint ran with viewport height 0 and width 0 in a
\* normalized state whose X offset is negative and whose Y offset is 0.
C6_Witness ==
    /\ NormalizedForPaint
    /\ view_width = 0 /\ view_height = 0
    /\ key_tile_xoffset < 0 /\ key_tile_yoffset = 0
    /\ ColList.list = <<key_tile_left>> /\ RowList.list = <<>>

\* the k >= 0 for which the cursor off + k * size is left of `limit`
Visible(off, size, limit) == {k \in 0 .. MaxK : off + k * size < limit}

\* list is coord, then each entry the one before plus 1 modulo num
Advancing(list, coord, num) ==
    \A i \in 1 .. Len(list) :
        list[i] = IF i = 1 THEN coord ELSE (list[i - 1] + 1) % num

\* C7: on a wrapping axis with the tile counts read, the column list of a
\* repaint has exactly one entry for each k >= 0 with keyOffsetX + k * tileWidth <
\* viewport width (tileWidth the tile source's tile width), the first the
\* key tile column and each next one the one before plus 1 modulo the
\* column count; with tileWidth 256, width 600 and offset 0 it has 3
\* entries.  The same for the rows.
C7_Coverage ==
    (op.kind = "paintEvent" /\ HasGrid) =>
        /\ tile_src.wrap_x =>
               /\ ColList.outcome = "ok"
               /\ Len(ColList.list) =
                      Cardinality(Visible(key_tile_xoffset,
                                          tile_src.tile_size_x, view_width))
               /\ Advancing(ColList.list, key_tile_left, num_tiles_x)
               /\ (/\ tile_src.tile_size_x = 256
                   /\ view_width = 600
                   /\ key_tile_xoffset = 0) => Len(ColList.list) = 3
        /\ tile_src.wrap_y =>
               /\ RowList.outcome = "ok"
               /\ Len(RowList.list) =
                      Cardinality(Visible(key_tile_yoffset,
                                          tile_src.tile_size_y, view_height))
               /\ Advancing(RowList.list, key_tile_top, num_tiles_y)

\* C7 witness: a repaint ran with tile width 256, viewport width 600 and
\* key offset 0 on a wrapping X axis, and listed 3 columns.
C7_Witness ==
    /\ op.kind = "paintEvent" /\ op.outcome = "ok"
    /\ tile_src.wrap_x /\ HasGrid
    /\ tile_src.tile_size_x = 256 /\ view_width = 600
    /\ key_tile_xoffset = 0
    /\ Len(ColList.list) = 3

\* C8: a pan (normalize_view, or the mouse move that calls it) leaves the
\* key tile column and X offset unchanged when wrap_x is false, and the
\* key tile row and Y offset unchanged when wrap_y is false.
C8_BoundedAxis ==
    [][(Running /\ op'.kind \in PanKinds) =>
           /\ ~tile_src.wrap_x => UNCHANGED <<key_tile_left, key_tile_xoffset>>
           /\ ~tile_src.wrap_y => UNCHANGED <<key_tile_top, key_tile_yoffset>>
      ]_vars

\* C8 witness: a pan has run with wrap_x false, after pans that moved the
\* key tile on the wrapping Y axis.
C8_Witness ==
    /\ op.kind = "normalize_view" /\ op.outcome = "ok"
    /\ ~tile_src.wrap_x /\ tile_src.wrap_y
    /\ key_tile_top # 0 /\ key_tile_yoffset # 0
    /\ key_tile_left = 0 /\ key_tile_xoffset = 0

\* C9 (as claimed): no pan and no resize raises, in any state, the state
\* right after construction included.
C9_PanResizeNeverRaise ==
    op.kind \in PanKinds \cup {"resizeEvent"} => op.outcome = "ok"

\* C10 (as claimed): a grid with a zero tile size or a zero tile count is
\* refused when it is configured, so no pan and no repaint ever hangs in a
\* loop that advances by a tile size of 0 or takes a modulo by a tile count
\* of 0.
C10_FailFast ==
    op.kind \in PanKinds \cup {"paintEvent"} =>
        op.outcome \notin {"diverges", "ZeroDivisionError"}

\* a handler that changes the level: zoom_level itself, or the wheel
ZoomKinds == {"zoom_level", "wheelEvent"}

\* Twice the map pixel under the centre of the view on one axis: the key
\* tile starts at map pixel coord * size and sits at view pixel off.
CentreTwice(coord, off, size, extent) == 2 * (coord * size - off) + extent

\* twice the map extent of one axis
MapTwice(size, num) == 2 * num * size

\* the fractions n1 / d1 and n2 / d2 are equal
SameFraction(n1, d1, n2, d2) == n1 * d2 = n2 * d1

\* a grid of num tiles of `size` pixels has a normalized key tile whose
\* view centre is the fraction n / d of the map
Representable(n, d, size, num, extent) ==
    \E c \in 0 .. num - 1 : \E o \in 1 - size .. 0 :
        SameFraction(n, d, CentreTwice(c, o, size, extent), MapTwice(size, num))

\* C11 (as claimed): an accepted use_level / zoom_level keeps the map point
\* at the centre of the view: on each axis the centre's fraction of the map
\* extent, (keyCoord*tileSize - keyOffset + viewSize/2) / (tileCount*tileSize),
\* is the same after the call as before it whenever the new level's grid
\* has a key tile that represents it.
C11_CentreKept ==
    [][(Running /\ HasGrid /\ op'.kind \in ZoomKinds /\ op'.result = TRUE) =>
           /\ Representable(CentreTwice(key_tile_left, key_tile_xoffset,
                                        tile_size_x, view_width),
                            MapTwice(tile_size_x, num_tiles_x),
                            tile_size_x, num_tiles_x', view_width)
              => SameFraction(CentreTwice(key_tile_left, key_tile_xoffset,
                                          tile_size_x, view_width),
                              MapTwice(tile_size_x, num_tiles_x),
                              CentreTwice(key_tile_left', key_tile_xoffset',
                                          tile_size_x, view_width),
                              MapTwice(tile_size_x, num_tiles_x'))
           /\ Representable(CentreTwice(key_tile_top, key_tile_yoffset,
                                        tile_size_y, view_height),
                            MapTwice(tile_size_y, num_tiles_y),
                            tile_size_y, num_tiles_y', view_height)
              => SameFraction(CentreTwice(key_tile_top, key_tile_yoffset,
                                          tile_size_y, view_height),
                              MapTwice(tile_size_y, num_tiles_y),
                              CentreTwice(key_tile_top', key_tile_yoffset',
                                          tile_size_y, view_height),
                              MapTwice(tile_size_y, num_tiles_y'))]_vars

\* C12 (as claimed): in every reachable state, from construction with any
\* start_level on, the level lies between the minimum and the maximum of the
\* tile source's levels.
C12_LevelInBounds == min_level <= level /\ level <= max_level

\* C13: when the tile source accepts the requested level, zoom_level
\* returns True, the level is the requested level, both tile counts are the
\* ones GetInfo reports for that level, and a redraw is requested.
C13_AcceptedZoom ==
    [][\A l \in ReqLevels : \A k \in ZoomKinds :
           (Running /\ UseLevel(tile_src, l) /\ ZoomTo(l, k)) =>
               /\ op'.outcome = "ok"
               /\ op'.result = TRUE
               /\ level' = l
               /\ num_tiles_x' = GetInfo(tile_src, l)[1]
               /\ num_tiles_y' = GetInfo(tile_src, l)[2]
               /\ op'.updates >= 1]_vars

\* an accepted zoom_level(1), after a pan, to a level of 3 x 2 tiles
C13_Witness ==
    /\ op.kind = "zoom_level" /\ op.result = TRUE /\ op.updates = 1
    /\ level = 1 /\ GetInfo(tile_src, 1)[1] = 3 /\ GetInfo(tile_src, 1)[2] = 2
    /\ num_tiles_x = 3 /\ num_tiles_y = 2
    /\ key_tile_xoffset < 0

\* C14: pan(0, 0) returns normally and leaves the key tile column and row,
\* both key offsets and the level as they were, in every reachable state,
\* whether the axes wrap or not.
C14_PanZero ==
    [][(Running /\ normalize_view(0, 0)) =>
           /\ op'.outcome = "ok"
           /\ UNCHANGED <<anchor, level>>]_vars

\* pan(0, 0) has run on an anchor away from the origin, X axis wrapping
C14_Witness ==
    /\ op.kind = "normalize_view" /\ op.delta = <<0, 0>> /\ op.outcome = "ok"
    /\ HasGrid /\ tile_src.wrap_x
    /\ key_tile_left > 0 /\ key_tile_xoffset < 0

\* C15: a resize sets the view width and height to the new size and changes
\* nothing else: key tile, key offsets, level and tile counts stay.
C15_ResizeFrame ==
    [][op'.kind = "resizeEvent" =>
           /\ <<view_width', view_height'>> \in ViewSizes
           /\ op'.outcome = "ok"
           /\ UNCHANGED <<anchor, grid, tile_src, fixed, mouse>>]_vars

\* a resize to 600 x 100 of a view whose key tile is away from the origin
C15_Witness ==
    /\ op.kind = "resizeEvent" /\ view_width = 600 /\ view_height = 100
    /\ HasGrid /\ key_tile_left > 0 /\ key_tile_xoffset < 0

\* C16: from a normalized anchor, on a grid whose tile size and tile counts
\* are at least 1, every pan ends (its loops do not run forever and nothing
\* raises) with both key offsets in (-tileSize, 0].
C16_PanTerminates ==
    [][(/\ Running /\ HasGrid
        /\ tile_size_x >= 1 /\ tile_size_y >= 1
        /\ num_tiles_x >= 1 /\ num_tiles_y >= 1
        /\ NormalizedAxis(key_tile_left, key_tile_xoffset, tile_size_x, num_tiles_x)
        /\ NormalizedAxis(key_tile_top, key_tile_yoffset, tile_size_y, num_tiles_y)
        /\ op'.kind \in PanKinds /\ op'.delta # <<>>) =>
           /\ op'.outcome = "ok"
           /\ -tile_size_x < key_tile_xoffset' /\ key_tile_xoffset' <= 0
           /\ -tile_size_y < key_tile_yoffset' /\ key_tile_yoffset' <= 0]_vars

\* a pan by two tile widths to the right and more than one tile height down
\* has ended, both axes wrapping
C16_Witness ==
    /\ op.kind = "normalize_view" /\ op.delta = <<-300, -150>>
    /\ op.outcome = "ok" /\ HasGrid
    /\ tile_src.wrap_x /\ tile_src.wrap_y
    /\ tile_size_x = 150 /\ tile_size_y = 100
    /\ key_tile_yoffset = -50

\* C17 (as claimed): during one drag the deltas passed to pan sum, on each
\* axis, to the first pointer position minus the last one, whatever the
\* positions are (x = 0 included).  Every prefix of a drag is a drag, so the
\* sums telescope exactly when each move after the first one of the drag
\* (left button down, the previous position recorded) passes the previous
\* position minus the new one to pan.
C17_DragDeltas ==
    [][\A p \in MousePos :
           (/\ Running /\ left_mbutton_down /\ start_drag_x # <<>>
            /\ mouseMoveEvent(p[1], p[2])) =>
               op'.delta = <<start_drag_x[1] - p[1], start_drag_y[1] - p[2]>>]_vars

\* the tile size normalize_view steps the key offset by (lines 175, 179,
\* 194, 198)
NormalizeTileSize == <<tile_size_x, tile_size_y>>

\* the tile size paintEvent advances x_pix_start / y_pix_start by when it
\* builds col_list and row_list (lines 277, 287)
CursorTileSize == <<tile_src.tile_size_x, tile_src.tile_size_y>>

\* the tile size paintEvent advances x_pix / y_pix by when it draws the
\* tiles (lines 304, 305)
PlaceTileSize == <<tile_size_x, tile_size_y>>

\* C18 (as claimed): in every reachable state, also after an accepted level
\* change for which the tile source has another tile size, normalization,
\* the choice of the visible columns and rows and the placing of the tiles
\* all use the tile source's current tile size.
C18_OneTileSize ==
    /\ NormalizeTileSize = <<tile_src.tile_size_x, tile_src.tile_size_y>>
    /\ CursorTileSize = <<tile_src.tile_size_x, tile_src.tile_size_y>>
    /\ PlaceTileSize = <<tile_src.tile_size_x, tile_src.tile_size_y>>

\* the handlers that are not a zoom
OtherKinds ==
    {"mousePressEvent", "mouseReleaseEvent", "mouseMoveEvent",
     "normalize_view", "resizeEvent", "paintEvent"}

\* C19: after construction the level and the tile counts change only in a
\* zoom_level call the tile source accepted; a wheel event is exactly a
\* request for level + 1 or for level - 1 put to UseLevel; a pan, a resize,
\* a mouse press, release or move and a repaint leave the level and the
\* tile counts alone.
C19_LevelOnlyByZoom ==
    [][/\ grid' # grid =>
              /\ op'.kind \in ZoomKinds
              /\ op'.result = TRUE
              /\ UseLevel(tile_src, level')
       /\ op'.kind = "wheelEvent" =>
              \/ ZoomTo(level + 1, "wheelEvent")
              \/ ZoomTo(level - 1, "wheelEvent")
       /\ op'.kind \in OtherKinds => UNCHANGED grid]_vars

\* the wheel has moved the widget from level 2, which the tile source does
\* not have, to level 1
C19_Witness ==
    /\ op.kind = "wheelEvent" /\ op.result = TRUE
    /\ level = 1 /\ max_level = 1 /\ num_tiles_x = 3

\* the event handlers that move the key tile or change the level
ChangingKinds == {"mouseMoveEvent"} \cup ZoomKinds

\* C20 (as claimed): every event that changes the key tile, a key offset or
\* the level (a drag move that applies a delta, an accepted zoom) calls
\* update() at least once after the change.
C20_RedrawAfterChange ==
    [][(/\ Running /\ op'.kind \in ChangingKinds
        /\ (anchor' # anchor \/ level' # level)) =>
           op'.updates >= 1]_vars

=============================================================================
